---- MODULE Spec2Model ----
(***************************************************************************)
(* Model of shopify_to_xero.py: the conversion of a month of Shopify order *)
(* rows into Xero journal lines.                                           *)
(*                                                                         *)
(* Texts that the code inspects character by character (payment methods,   *)
(* created-at dates) are sequences of one-character strings.  Amounts are  *)
(* integers counting hundredths (cents): the order export carries          *)
(* two-decimal currency values, so sums are exact and floating-point       *)
(* summation error is outside the model.  The text of an output amount     *)
(* (the f"{x:.2f}" of the code) is a record of sign, whole part and        *)
(* two-digit fraction.                                                     *)
(***************************************************************************)
EXTENDS Integers, Sequences, FiniteSets, TLC

VARIABLES
    pc,              \* position of the run that is being modelled
    pm_in,           \* get_payment_account: the argument
    pm_shape,        \* how pm_in was built from the table's labels (history)
    pm_out,          \* get_payment_account: the value returned
    day_rows,        \* process_single_date: the rows argument
    day_out,         \* process_single_date: entries returned and balance report
    target,          \* convert_whole_month_to_journal: <<month, year>>
    input,           \* rows the csv reader has yielded so far (history)
    date_groups,     \* date_groups, in insertion order: <<[key, rows], ...>>
    total_rows,      \* total_rows
    sorted_dates,    \* sorted_dates
    idx,             \* position of the for loop over sorted_dates
    all_entries,     \* all_entries
    processed_dates, \* processed_dates
    day_log,         \* the per-date lines printed: balance reports and errors
    output,          \* the rows written to output_csv, or NoFile
    summary          \* the monthly summary printed after writing, or NoSummary

vars == <<pc, pm_in, pm_shape, pm_out, day_rows, day_out, target, input,
          date_groups, total_rows, sorted_dates, idx, all_entries,
          processed_dates, day_log, output, summary>>

payVars == <<pm_in, pm_shape, pm_out>>
dayVars == <<day_rows, day_out>>
monthVars == <<target, input, date_groups, total_rows, sorted_dates, idx,
               all_entries, processed_dates, day_log, output, summary>>

(***************************************************************************)
(* Text primitives of Python's str used by the code.                       *)
(***************************************************************************)
UpperChars ==
    <<"A","B","C","D","E","F","G","H","I","J","K","L","M",
      "N","O","P","Q","R","S","T","U","V","W","X","Y","Z">>

LowerChars ==
    <<"a","b","c","d","e","f","g","h","i","j","k","l","m",
      "n","o","p","q","r","s","t","u","v","w","x","y","z">>

LowerChar(c) ==
    IF \E i \in 1..Len(UpperChars) : UpperChars[i] = c
    THEN LowerChars[CHOOSE i \in 1..Len(UpperChars) : UpperChars[i] = c]
    ELSE c

UpperChar(c) ==
    IF \E i \in 1..Len(LowerChars) : LowerChars[i] = c
    THEN UpperChars[CHOOSE i \in 1..Len(LowerChars) : LowerChars[i] = c]
    ELSE c

\* str.lower()
Lower(s) == [i \in 1..Len(s) |-> LowerChar(s[i])]

\* str.upper()
Upper(s) == [i \in 1..Len(s) |-> UpperChar(s[i])]

IsSpace(c) == c \in {" ", "\t", "\n", "\r"}

MinOf(S) == CHOOSE x \in S : \A y \in S : x <= y
MaxOf(S) == CHOOSE x \in S : \A y \in S : y <= x

\* A mistaken trimming that drops every blank of the text, inner ones too.
StripAllBlanks(s) == SelectSeq(s, LAMBDA c : ~IsSpace(c))

\* str.strip(): leading and trailing whitespace removed, inner kept
Trimmed(s, keep) == IF keep = {} THEN <<>> ELSE SubSeq(s, MinOf(keep), MaxOf(keep))

Strip(s) == Trimmed(s, {i \in 1..Len(s) : ~IsSpace(s[i])})

\* the Python test  sub in s  on texts
Contains(sub, s) ==
    \E k \in 0..(Len(s) - Len(sub)) : SubSeq(s, k + 1, k + Len(sub)) = sub

(***************************************************************************)
(* get_payment_account                                                     *)
(***************************************************************************)
\* payment_mapping, in the order of the dict literal (a dict iterates in
\* insertion order)
payment_mapping ==
    << [key |-> <<"S","t","r","i","p","e">>,
        account |-> "102 - Stripe Account"],
       [key |-> <<"C","a","s","h"," ","o","n"," ","D","e","l","i","v","e","r","y",
                  " ","(","C","O","D",")">>,
        account |-> "110 - Cash on Delivery"],
       [key |-> <<"C","a","s","h"," ","o","n"," ","D","e","l","i","v","e","r","y",
                  " ","(","C","O","D",")"," ","+"," ","c","u","s","t","o","m">>,
        account |-> "110 - Cash on Delivery"],
       [key |-> <<"C","a","s","h"," ","o","n"," ","D","e","l","i","v","e","r","y",
                  " ","(","C","O","D",")"," ","+"," ","B","a","n","k"," ",
                  "D","e","p","o","s","i","t">>,
        account |-> "110 - Cash on Delivery"],
       [key |-> <<"T","a","m","a","r","a"," ","S","p","l","i","t"," ",
                  "P","a","y","m","e","n","t","s">>,
        account |-> "111 - Tamara"],
       [key |-> <<"T","a","m","a","r","a">>,
        account |-> "111 - Tamara"],
       [key |-> <<"T","a","b","b","y">>,
        account |-> "112 - Tabby"],
       [key |-> <<"C","u","s","t","o","m"," ","(","P","O","S",")">>,
        account |-> "113 - POS Account"],
       [key |-> <<"C","a","r","d">>,
        account |-> "102 - Card Account"],
       [key |-> <<"C","a","s","h">>,
        account |-> "101 - Cash Account"] >>

DefaultAccount == "102 - Stripe Account"

\* The loop without its early return: the last matching entry wins.
PartialMatchLast(p, i) ==
    LET hits == {j \in i..Len(payment_mapping) :
                    Contains(Lower(payment_mapping[j].key), Lower(p))}
    IN  IF hits = {} THEN DefaultAccount
        ELSE payment_mapping[MaxOf(hits)].account

\* the loop  for key in payment_mapping  from entry i on, then the fallback
RECURSIVE PartialMatch(_, _)
PartialMatch(p, i) ==
    IF i > Len(payment_mapping) THEN DefaultAccount
    ELSE IF Contains(Lower(payment_mapping[i].key), Lower(p))
         THEN payment_mapping[i].account
         ELSE PartialMatch(p, i + 1)

DirectMatch(p) == {i \in 1..Len(payment_mapping) : payment_mapping[i].key = p}

\* the lookups on the trimmed text p: direct match, partial match, fallback
AccountOf(p) ==
    IF DirectMatch(p) # {}
    THEN payment_mapping[CHOOSE i \in DirectMatch(p) : TRUE].account
    ELSE PartialMatch(p, 1)

get_payment_account(payment_method) == AccountOf(Strip(payment_method))

(***************************************************************************)
(* safe_float.  A field of a csv row is a text, or NoneField when the row  *)
(* is shorter than the header (csv.DictReader fills the missing fields     *)
(* with None).  The amount texts covered are an optional sign, digits with *)
(* thousands separators, and at most two decimals; the value is in cents.  *)
(***************************************************************************)
NoneField == <<"None">>

Digits == <<"0","1","2","3","4","5","6","7","8","9">>

IsDigit(c) == \E i \in 1..Len(Digits) : Digits[i] = c

DigitVal(c) == (CHOOSE i \in 1..Len(Digits) : Digits[i] = c) - 1

AllDigits(t) == \A i \in 1..Len(t) : IsDigit(t[i])

\* the number a text of digits denotes (0 for the empty text)
RECURSIVE DigitsVal(_)
DigitsVal(t) ==
    IF t = <<>> THEN 0
    ELSE DigitsVal(SubSeq(t, 1, Len(t) - 1)) * 10 + DigitVal(t[Len(t)])

\* str.replace(',', '')
RemoveCommas(t) == SelectSeq(t, LAMBDA c : c # ",")

\* the cents of a fraction text of at most two digits
FractionCents(frac) ==
    IF Len(frac) = 0 THEN 0
    ELSE IF Len(frac) = 1 THEN DigitVal(frac[1]) * 10
    ELSE DigitsVal(SubSeq(frac, 1, 2))

\* float() of  whole "." frac  without its sign
ParseUnsignedParts(whole, frac) ==
    IF AllDigits(whole) /\ AllDigits(frac) /\ Len(whole) + Len(frac) >= 1
    THEN [ok |-> TRUE, value |-> DigitsVal(whole) * 100 + FractionCents(frac)]
    ELSE [ok |-> FALSE, value |-> 0]

DotsOf(body) == {i \in 1..Len(body) : body[i] = "."}

ParseUnsigned(body) ==
    IF Cardinality(DotsOf(body)) > 1 THEN [ok |-> FALSE, value |-> 0]
    ELSE IF DotsOf(body) = {} THEN ParseUnsignedParts(body, <<>>)
    ELSE ParseUnsignedParts(SubSeq(body, 1, MinOf(DotsOf(body)) - 1),
                            SubSeq(body, MinOf(DotsOf(body)) + 1, Len(body)))

Negated(parsed) == [parsed EXCEPT !.value = -@]

\* float(t) on a decimal text: [ok |-> FALSE] is ValueError, else the cents
ParseFloat(t) ==
    IF t # <<>> /\ t[1] = "-" THEN Negated(ParseUnsigned(Tail(t)))
    ELSE IF t # <<>> /\ t[1] = "+" THEN ParseUnsigned(Tail(t))
    ELSE ParseUnsigned(t)

\* the value of the try block: 0.0 on ValueError
ValueOrZero(parsed) == IF parsed.ok THEN parsed.value ELSE 0

safe_float(value) ==
    IF value = NoneField \/ value = <<>>
       \/ Strip(value) \in {<<>>, <<"-">>, <<"n","a","n">>}
    THEN 0
    ELSE ValueOrZero(ParseFloat(RemoveCommas(Strip(value))))

(***************************************************************************)
(* datetime.strptime(text, "%d/%m/%Y") and date.strftime("%d.%m.%Y")       *)
(***************************************************************************)
IsLeap(y) == (y % 4 = 0 /\ y % 100 # 0) \/ y % 400 = 0

DaysInMonth(m, y) ==
    IF m = 2 THEN (IF IsLeap(y) THEN 29 ELSE 28)
    ELSE IF m \in {4, 6, 9, 11} THEN 30 ELSE 31

NoDate == [ok |-> FALSE, day |-> 0, month |-> 0, year |-> 0]

\* the date of the three numbers: ValueError when there is no such day
MakeDate(d, m, y) ==
    IF y >= 1 /\ m \in 1..12 /\ d >= 1 /\ d <= DaysInMonth(m, y)
    THEN [ok |-> TRUE, day |-> d, month |-> m, year |-> y]
    ELSE NoDate

\* %d and %m take one or two digits (not "0" or "00"), %Y exactly four
ParseDateParts(dd, mm, yy) ==
    IF /\ Len(dd) \in {1, 2} /\ AllDigits(dd)
       /\ Len(mm) \in {1, 2} /\ AllDigits(mm)
       /\ Len(yy) = 4 /\ AllDigits(yy)
    THEN MakeDate(DigitsVal(dd), DigitsVal(mm), DigitsVal(yy))
    ELSE NoDate

SlashesOf(text) == {i \in 1..Len(text) : text[i] = "/"}

\* the text cut at its slashes: there must be two
SplitDate(text, slashes) ==
    IF Cardinality(slashes) # 2 THEN NoDate
    ELSE ParseDateParts(SubSeq(text, 1, MinOf(slashes) - 1),
                        SubSeq(text, MinOf(slashes) + 1, MaxOf(slashes) - 1),
                        SubSeq(text, MaxOf(slashes) + 1, Len(text)))

\* [ok |-> FALSE] is ValueError
Strptime(text) == SplitDate(text, SlashesOf(text))

\* the decimal text of n, at least w digits wide, zero filled
RECURSIVE ZeroFilled(_, _)
ZeroFilled(n, w) ==
    IF w <= 1 /\ n < 10 THEN <<Digits[n + 1]>>
    ELSE ZeroFilled(n \div 10, w - 1) \o <<Digits[(n % 10) + 1]>>

\* strftime("%d.%m.%Y")
Strftime(date) ==
    ZeroFilled(date.day, 2) \o <<".">> \o ZeroFilled(date.month, 2)
    \o <<".">> \o ZeroFilled(date.year, 4)

\* datetime as the sort key: days are compared year, month, day
DateKey(date) == date.year * 10000 + date.month * 100 + date.day

(***************************************************************************)
(* The text of an amount, f"{x:.2f}", and float() of that text.            *)
(***************************************************************************)
Abs(x) == IF x < 0 THEN -x ELSE x

FormatAmount(cents) ==
    [neg |-> cents < 0, whole |-> Abs(cents) \div 100, frac |-> Abs(cents) % 100]

AmountValue(a) ==
    IF a.neg THEN -(a.whole * 100 + a.frac) ELSE a.whole * 100 + a.frac

(***************************************************************************)
(* process_single_date                                                     *)
(*                                                                         *)
(* A row is [created, subtotal, shipping, discount, taxes, total, pm]:     *)
(* the texts of ' Created at ', ' Subtotal ', ' Shipping ',                *)
(* 'Discount Amount', ' Taxes ', ' Total ' and 'Payment Method'.           *)
(***************************************************************************)
NoValue == "no value"

\* payment_totals[method] = total: the last row's total replaces the sum.
AddPaymentOverwrite(payment_totals, method, total) ==
    IF \E k \in 1..Len(payment_totals) : payment_totals[k].method = method
    THEN [k \in 1..Len(payment_totals) |->
            IF payment_totals[k].method = method
            THEN [payment_totals[k] EXCEPT !.amount = total]
            ELSE payment_totals[k]]
    ELSE Append(payment_totals, [method |-> method, amount |-> total])

\* A dict that would put a new key in front of the others.
AddPaymentInFront(payment_totals, method, total) ==
    IF \E k \in 1..Len(payment_totals) : payment_totals[k].method = method
    THEN [k \in 1..Len(payment_totals) |->
            IF payment_totals[k].method = method
            THEN [payment_totals[k] EXCEPT !.amount = @ + total]
            ELSE payment_totals[k]]
    ELSE <<[method |-> method, amount |-> total]>> \o payment_totals

\* payment_totals[method] += total on a dict kept in insertion order
AddPayment(payment_totals, method, total) ==
    IF \E k \in 1..Len(payment_totals) : payment_totals[k].method = method
    THEN [k \in 1..Len(payment_totals) |->
            IF payment_totals[k].method = method
            THEN [payment_totals[k] EXCEPT !.amount = @ + total]
            ELSE payment_totals[k]]
    ELSE Append(payment_totals, [method |-> method, amount |-> total])

ZeroTotals ==
    [subtotal |-> 0, shipping |-> 0, discount |-> 0, taxes |-> 0, total |-> 0,
     payment_totals |-> <<>>, zero_tax_revenue |-> 0]

\* the additions of one pass of the loop  for row in rows
AddValues(t, subtotal, shipping, discount, taxes, total, payment_method) ==
    [subtotal |-> t.subtotal + subtotal,
     shipping |-> t.shipping + shipping,
     discount |-> t.discount + discount,
     taxes    |-> t.taxes + taxes,
     total    |-> t.total + total,
     payment_totals |->
         IF payment_method # <<>>
         THEN AddPayment(t.payment_totals, payment_method, total)
         ELSE t.payment_totals,
     zero_tax_revenue |->
         IF taxes = 0 /\ subtotal > 0
         THEN t.zero_tax_revenue + subtotal
         ELSE t.zero_tax_revenue]

\* one pass of the loop  for row in rows  over the running totals
AddRow(t, row) ==
    AddValues(t, safe_float(row.subtotal), safe_float(row.shipping),
              safe_float(row.discount), safe_float(row.taxes),
              safe_float(row.total), Strip(row.pm))

\* the totals after the loop over rows[1..n]
RECURSIVE Aggregate(_, _)
Aggregate(rows, n) ==
    IF n = 0 THEN ZeroTotals ELSE AddRow(Aggregate(rows, n - 1), rows[n])

\* row.get('Payment Method', '').strip() on a field that is None raises
RowRaises(row) == row.pm = NoneField

Entry(narration, date_str, account, tax_rate, cents) ==
    [Narration |-> narration, Date |-> date_str, Description |-> narration,
     AccountCode |-> account, TaxRate |-> tax_rate,
     Amount |-> FormatAmount(cents)]

\* the entries of  for payment_method, amount in payment_totals.items()
RECURSIVE PaymentEntries(_, _, _, _)
PaymentEntries(payment_totals, n, narration, date_str) ==
    IF n = 0 THEN <<>>
    ELSE PaymentEntries(payment_totals, n - 1, narration, date_str)
         \o (IF payment_totals[n].amount > 0
             THEN <<Entry(narration, date_str,
                          get_payment_account(payment_totals[n].method),
                          "Tax Exempt (0%)", payment_totals[n].amount)>>
             ELSE <<>>)

\* sum(float(entry['*Amount']) for entry in entries)
RECURSIVE SumAmounts(_)
SumAmounts(entries) ==
    IF entries = <<>> THEN 0
    ELSE AmountValue(Head(entries).Amount) + SumAmounts(Tail(entries))

\* Lines emitted for every aggregate that is not zero, negative ones included.
BuildEntriesNonZero(t, narration, date_str) ==
    LET taxable_revenue == t.subtotal - t.zero_tax_revenue + t.discount
    IN  (IF taxable_revenue # 0
         THEN <<Entry(narration, date_str, "208 - Revenue - Shopify",
                      "Output VAT 5% (5%)", -taxable_revenue)>>
         ELSE <<>>)
        \o (IF t.shipping # 0
            THEN <<Entry(narration, date_str, "203 - Revenue - Shipping Retail",
                         "Zero Rated Output VAT (0%)", -t.shipping)>>
            ELSE <<>>)
        \o PaymentEntries(t.payment_totals, Len(t.payment_totals),
                          narration, date_str)
        \o (IF t.discount # 0
            THEN <<Entry(narration, date_str, "205B - Sales Discount [Shopify]",
                         "Output VAT 5% (5%)", t.discount)>>
            ELSE <<>>)
        \o (IF t.zero_tax_revenue > 0
            THEN <<Entry(narration, date_str, "208 - Revenue - Shopify",
                         "Zero Rated Output VAT (0%)", -t.zero_tax_revenue)>>
            ELSE <<>>)

\* the journal lines built from one date's totals, in the order of the code
BuildEntries(t, narration, date_str) ==
    LET taxable_revenue == t.subtotal - t.zero_tax_revenue + t.discount
    IN  (IF taxable_revenue > 0
         THEN <<Entry(narration, date_str, "208 - Revenue - Shopify",
                      "Output VAT 5% (5%)", -taxable_revenue)>>
         ELSE <<>>)
        \o (IF t.shipping > 0
            THEN <<Entry(narration, date_str, "203 - Revenue - Shipping Retail",
                         "Zero Rated Output VAT (0%)", -t.shipping)>>
            ELSE <<>>)
        \o PaymentEntries(t.payment_totals, Len(t.payment_totals),
                          narration, date_str)
        \o (IF t.discount > 0
            THEN <<Entry(narration, date_str, "205B - Sales Discount [Shopify]",
                         "Output VAT 5% (5%)", t.discount)>>
            ELSE <<>>)
        \o (IF t.zero_tax_revenue > 0
            THEN <<Entry(narration, date_str, "208 - Revenue - Shopify",
                         "Zero Rated Output VAT (0%)", -t.zero_tax_revenue)>>
            ELSE <<>>)

\* the 0.01 of the balance verification, in cents
DayTolerance == 1

\* What a call leaves behind: raised (an exception left the function),
\* entries (the list returned), printed (whether the balance line was
\* printed) with taxes, balance and balance_ok of that line, and the totals
\* the lines were built from.
Quiet ==
    [raised |-> FALSE, entries |-> <<>>, printed |-> FALSE, taxes |-> 0,
     balance |-> 0, balance_ok |-> FALSE, totals |-> ZeroTotals]

\* the balance verification of the entries and the return
Verified(t, entries, total_amount_sum) ==
    [raised |-> FALSE, entries |-> entries, printed |-> TRUE,
     taxes |-> t.taxes, balance |-> total_amount_sum,
     balance_ok |-> Abs(total_amount_sum - t.taxes) < DayTolerance,
     totals |-> t]

VerifiedEntries(t, entries) == Verified(t, entries, SumAmounts(entries))

\* the function from  # Create journal entries  on, for the totals t
Journal(t, target_date, target_date_str) ==
    IF ~target_date.ok THEN [Quiet EXCEPT !.raised = TRUE]
    ELSE VerifiedEntries(t, BuildEntries(t, <<"Shopify Sales ">>
                                            \o Strftime(target_date),
                                         target_date_str))

\* A loop that skips the rows it cannot read instead of raising.
process_single_date_skipping(rows, target_date_str) ==
    IF rows = <<>> THEN Quiet
    ELSE Journal(Aggregate(SelectSeq(rows, LAMBDA row : ~RowRaises(row)),
                           Len(SelectSeq(rows, LAMBDA row : ~RowRaises(row)))),
                 Strptime(target_date_str), target_date_str)

process_single_date(rows, target_date_str) ==
    IF rows = <<>> THEN Quiet
    ELSE IF \E n \in 1..Len(rows) : RowRaises(rows[n])
    THEN [Quiet EXCEPT !.raised = TRUE]
    ELSE Journal(Aggregate(rows, Len(rows)), Strptime(target_date_str),
                 target_date_str)

(***************************************************************************)
(* convert_whole_month_to_journal                                          *)
(***************************************************************************)
\* The test with the year left out.
InTargetMonthOnly(row_date, tgt) == row_date.month = tgt[1]

\* row_date.month == month and row_date.year == year
InTarget(row_date, tgt) == row_date.month = tgt[1] /\ row_date.year = tgt[2]

\* date_groups[created_at].append(row) on a dict kept in insertion order
GroupAppend(groups, created_at, row) ==
    IF \E k \in 1..Len(groups) : groups[k].key = created_at
    THEN [k \in 1..Len(groups) |->
            IF groups[k].key = created_at
            THEN [groups[k] EXCEPT !.rows = Append(@, row)]
            ELSE groups[k]]
    ELSE Append(groups, [key |-> created_at, rows |-> <<row>>])

\* whether the body of  for row in reader  adds the row to a group; the row's
\* created-at field is a text
DateUsed(row_date, tgt) == row_date.ok /\ InTarget(row_date, tgt)

\* the test on the trimmed text created_at
TextUsed(created_at, tgt) ==
    created_at # <<>> /\ DateUsed(Strptime(created_at), tgt)

RowUsed(row, tgt) == TextUsed(Strip(row.created), tgt)

\* date_groups after the body of  for row in reader  for one such row
ReadStep(groups, row, tgt) ==
    IF RowUsed(row, tgt)
    THEN GroupAppend(groups, Strip(row.created), row)
    ELSE groups

\* row.get(" Created at ", "").strip() on a field that is None raises
ReadRaises(row) == row.created = NoneField

GroupKeys(groups) == [k \in 1..Len(groups) |-> groups[k].key]

GroupRows(groups, key) ==
    groups[CHOOSE k \in 1..Len(groups) : groups[k].key = key].rows

SortKey(date_str) == DateKey(Strptime(date_str))

\* one key put into a sorted list behind the keys that are not later
RECURSIVE InsertByDate(_, _)
InsertByDate(sorted, key) ==
    IF sorted = <<>> THEN <<key>>
    ELSE IF SortKey(sorted[Len(sorted)]) <= SortKey(key)
         THEN Append(sorted, key)
         ELSE Append(InsertByDate(SubSeq(sorted, 1, Len(sorted) - 1), key),
                     sorted[Len(sorted)])

RECURSIVE SortPrefix(_, _)
SortPrefix(keys, n) ==
    IF n = 0 THEN <<>> ELSE InsertByDate(SortPrefix(keys, n - 1), keys[n])

\* The dates left in the order in which the reader met them.
UnsortedDates(keys) == keys

\* sorted(date_groups.keys(), key=parsed date): a stable sort
SortDates(keys) == SortPrefix(keys, Len(keys))

\* the 1.0 of the overall balance check, in cents
MonthTolerance == 100

AccountsOf(entries) == {entries[k].AccountCode : k \in 1..Len(entries)}

Balanced(total_sum) == Abs(total_sum) < MonthTolerance

\* account_totals, total_sum and the verdict printed for them
MonthlySummary(entries) ==
    [account_totals |->
        [a \in AccountsOf(entries) |->
            SumAmounts(SelectSeq(entries, LAMBDA e : e.AccountCode = a))],
     total_sum |-> SumAmounts(entries),
     balanced |-> Balanced(SumAmounts(entries))]

(***************************************************************************)
(* Values that mark "not yet" or "absent" in the state.                    *)
(***************************************************************************)
NoFile == "no file"
NoSummary == "no summary"

PayIdle == pm_in = <<>> /\ pm_shape = NoValue /\ pm_out = NoValue
DayIdle == day_rows = <<>> /\ day_out = NoValue
MonthIdle ==
    /\ target = NoValue
    /\ input = <<>>
    /\ date_groups = <<>>
    /\ total_rows = 0
    /\ sorted_dates = <<>>
    /\ idx = 0
    /\ all_entries = <<>>
    /\ processed_dates = <<>>
    /\ day_log = <<>>
    /\ output = NoFile
    /\ summary = NoSummary

(***************************************************************************)
(* Specification SpecPay: get_payment_account applied to payment-method    *)
(* texts built from the table's labels and from foreign words.             *)
(***************************************************************************)
MaxPad == 1

OtherWords ==
    << <<>>,
       <<"P","a","y","P","a","l">>,
       <<"c","u","s","t","o","m">> >>

NLabels == Len(payment_mapping)

\* word w of the input alphabet: a label of the table, or a foreign word
Word(w) == IF w <= NLabels THEN payment_mapping[w].key ELSE OtherWords[w - NLabels]

Blanks(n) == [i \in 1..n |-> " "]

Cased(c, s) == CASE c = "asis" -> s [] c = "lower" -> Lower(s) [] c = "upper" -> Upper(s)

PayShapes ==
    [first : 1..(NLabels + Len(OtherWords)), second : 0..NLabels,
     cased : {"asis", "lower", "upper"}, padL : 0..MaxPad, padR : 0..MaxPad]

PayText(sh) ==
    Blanks(sh.padL)
    \o Cased(sh.cased, Word(sh.first))
    \o (IF sh.second = 0 THEN <<>>
        ELSE <<" ", "+", " ">> \o Cased(sh.cased, Word(sh.second)))
    \o Blanks(sh.padR)

PayInit ==
    /\ pc = "pay_call"
    /\ \E sh \in PayShapes : pm_shape = sh /\ pm_in = PayText(sh)
    /\ pm_out = NoValue
    /\ DayIdle
    /\ MonthIdle

GetPaymentAccount ==
    /\ pc = "pay_call"
    /\ pm_out' = get_payment_account(pm_in)
    /\ pc' = "pay_done"
    /\ UNCHANGED <<pm_in, pm_shape, dayVars, monthVars>>

PayNext == GetPaymentAccount

SpecPay == PayInit /\ [][PayNext]_vars

\* every account code the table and the fallback can give
AccountCodes ==
    {"102 - Stripe Account", "110 - Cash on Delivery", "111 - Tamara",
     "112 - Tabby", "113 - POS Account", "102 - Card Account",
     "101 - Cash Account"}

\* the input is label k of the table as written, blanks around it at most
IsExactLabel(sh) == sh.first <= NLabels /\ sh.second = 0 /\ sh.cased = "asis"

\* table entries whose lower-cased label occurs in the lower-cased text t
SubstringHits(t) ==
    {i \in 1..NLabels : Contains(Lower(payment_mapping[i].key), Lower(t))}

\* C4: an input whose trimmed text is a label of the table, case included,
\* gets that label's account, also when an earlier label of the table occurs
\* in it as a substring.
C4_ExactLabelWins ==
    (pc = "pay_done" /\ IsExactLabel(pm_shape))
        => pm_out = payment_mapping[pm_shape.first].account

\* C4 witness: 'Cash on Delivery (COD) + custom', padded with blanks, has the
\* earlier label 'Cash on Delivery (COD)' inside it and resolved to its own
\* entry's account.
C4_Witness ==
    /\ pc = "pay_done"
    /\ IsExactLabel(pm_shape)
    /\ pm_shape.first = 3
    /\ pm_shape.padL = 1
    /\ \E i \in SubstringHits(pm_in) : i < pm_shape.first
    /\ pm_out = "110 - Cash on Delivery"

\* C5: every input gets one of the fixed account codes; when the trimmed text
\* is no label of the table, it is the account of the first entry, in table
\* order, whose lower-cased label occurs in the lower-cased trimmed text, and
\* the default '102 - Stripe Account' when there is none.
C5_FirstSubstringOrDefault ==
    pc = "pay_done" =>
        /\ pm_out \in AccountCodes
        /\ ~IsExactLabel(pm_shape) =>
              LET hits == SubstringHits(pm_in)
              IN  pm_out = IF hits = {} THEN "102 - Stripe Account"
                           ELSE payment_mapping[MinOf(hits)].account

\* C5 witness: 'cash + tabby' is no label; 'tabby' (entry 7) and 'cash'
\* (entry 10) both occur in it and the earlier entry decided.
C5_Witness ==
    /\ pc = "pay_done"
    /\ pm_shape.first = 10 /\ pm_shape.second = 7 /\ pm_shape.cased = "lower"
    /\ SubstringHits(pm_in) = {7, 10}
    /\ pm_out = "112 - Tabby"

(***************************************************************************)
(* Specification SpecDay: process_single_date applied to lists of rows of  *)
(* one date.  The caller collects the rows, then calls.                    *)
(***************************************************************************)
MaxDayRows == 3

\* the decimal text of an amount in cents, as an export writes it
AmountText(cents) ==
    (IF cents < 0 THEN <<"-">> ELSE <<>>)
    \o ZeroFilled(Abs(cents) \div 100, 1) \o <<".">> \o ZeroFilled(Abs(cents) % 100, 2)

Row(created, subtotal, shipping, discount, taxes, total, pm) ==
    [created |-> created,
     subtotal |-> AmountText(subtotal), shipping |-> AmountText(shipping),
     discount |-> AmountText(discount), taxes |-> AmountText(taxes),
     total |-> AmountText(total), pm |-> pm]

Stripe == payment_mapping[1].key
Tabby == payment_mapping[7].key
Card == payment_mapping[9].key
PaddedCash == <<" ">> \o payment_mapping[10].key \o <<" ">>

FirstOfMarch == <<"0","1","/","0","3","/","2","0","2","5">>

\* the rows a date's list is drawn from
DayRowChoices ==
    LET d == FirstOfMarch
    IN  { \* taxed order, total = subtotal + shipping + taxes
          Row(d, 10000, 1000, 500, 500, 11500, Stripe),
          \* taxed order whose total holds the tax already
          Row(d, 10000, 1000, 500, 500, 11000, Stripe),
          \* zero-rated orders
          Row(d, 5000, 0, 0, 0, 5000, Tabby),
          Row(d, 3000, 500, 0, 0, 3500, Tabby),
          \* refund
          Row(d, -3000, -1000, 0, -150, -4150, Stripe),
          \* no payment method
          Row(d, 2000, 0, 0, 100, 2100, <<>>),
          \* nothing charged
          Row(d, 0, 0, 0, 0, 0, Card),
          \* thousands separator, markers of no value, unparseable text
          [created |-> d,
           subtotal |-> <<" ","1",",","0","0","0",".","0","0"," ">>,
           shipping |-> <<"-">>, discount |-> <<>>,
           taxes |-> <<"n","a","n">>, total |-> <<"a","b","c">>,
           pm |-> PaddedCash],
          \* a row cut short: the payment method field is missing
          [created |-> d, subtotal |-> AmountText(1000), shipping |-> NoneField,
           discount |-> NoneField, taxes |-> NoneField, total |-> NoneField,
           pm |-> NoneField] }

DayInit ==
    /\ pc = "day_collect"
    /\ day_rows = <<>>
    /\ day_out = NoValue
    /\ PayIdle
    /\ MonthIdle

DayAddRow ==
    /\ pc = "day_collect"
    /\ Len(day_rows) < MaxDayRows
    /\ \E row \in DayRowChoices : day_rows' = Append(day_rows, row)
    /\ UNCHANGED <<pc, day_out, payVars, monthVars>>

ProcessSingleDate ==
    /\ pc = "day_collect"
    /\ day_out' = process_single_date(day_rows, FirstOfMarch)
    /\ pc' = "day_done"
    /\ UNCHANGED <<day_rows, payVars, monthVars>>

DayNext == DayAddRow \/ ProcessSingleDate

SpecDay == DayInit /\ [][DayNext]_vars

(***************************************************************************)
(* Claims about process_single_date (SpecDay).                             *)
(***************************************************************************)
Called == pc = "day_done" /\ day_rows # <<>> /\ ~day_out.raised

TaxableRevenue(t) == t.subtotal - t.zero_tax_revenue + t.discount

\* the trimmed payment-method text of row n
MethodOf(rows, n) == Strip(rows[n].pm)

\* the summed total of the rows of payment method m
RECURSIVE MethodTotal(_, _, _)
MethodTotal(rows, n, m) ==
    IF n = 0 THEN 0
    ELSE MethodTotal(rows, n - 1, m)
         + (IF MethodOf(rows, n) = m THEN safe_float(rows[n].total) ELSE 0)

\* the payment methods with a positive total, by first appearance in rows
RECURSIVE PositiveMethods(_, _)
PositiveMethods(rows, n) ==
    IF n = 0 THEN <<>>
    ELSE LET m == MethodOf(rows, n)
             first == m # <<>> /\ \A k \in 1..(n - 1) : MethodOf(rows, k) # m
         IN  PositiveMethods(rows, n - 1)
             \o (IF first /\ MethodTotal(rows, Len(rows), m) > 0
                 THEN <<m>> ELSE <<>>)

IsLine(e, account, tax_rate, cents) ==
    /\ e.AccountCode = account
    /\ e.TaxRate = tax_rate
    /\ AmountValue(e.Amount) = cents
    /\ e.Date = FirstOfMarch
    /\ e.Narration = e.Description

\* every row states a payment method and has total = subtotal + shipping + taxes
RowsConsistent(rows) ==
    \A n \in 1..Len(rows) :
        /\ MethodOf(rows, n) # <<>>
        /\ safe_float(rows[n].total)
             = safe_float(rows[n].subtotal) + safe_float(rows[n].shipping)
               + safe_float(rows[n].taxes)

NoNegativeAggregate(t) ==
    /\ TaxableRevenue(t) >= 0
    /\ t.shipping >= 0
    /\ t.discount >= 0
    /\ \A k \in 1..Len(t.payment_totals) : t.payment_totals[k].amount >= 0

\* every amount field of every row is a plain two-decimal number
TwoDecimalAmounts(rows) ==
    \A n \in 1..Len(rows) :
        \A t \in {rows[n].subtotal, rows[n].shipping, rows[n].discount,
                  rows[n].taxes, rows[n].total} :
            t # NoneField /\ ParseFloat(t).ok

\* C1 as stated: for any non-empty list of records with exact two-decimal
\* amounts the emitted lines sum to the summed recorded tax within 0.01.
C1_LinesSumToTax ==
    (Called /\ TwoDecimalAmounts(day_rows))
        => Abs(SumAmounts(day_out.entries) - day_out.totals.taxes) <= 1

\* C1 amended: the emitted lines sum to the summed recorded tax (and the
\* date is reported balanced) when every record names a payment method and
\* has total = subtotal + shipping + taxes and no aggregate (taxable
\* revenue, shipping, discount, a payment method's total) is negative.
C1_ConsistentRowsSumToTax ==
    (Called /\ RowsConsistent(day_rows) /\ NoNegativeAggregate(day_out.totals))
        => /\ SumAmounts(day_out.entries) = day_out.totals.taxes
           /\ day_out.balance_ok

\* C1 witness: consistent rows with a tax, two rows of one payment method,
\* and lines of every category.
C1_Witness ==
    /\ Called /\ RowsConsistent(day_rows) /\ NoNegativeAggregate(day_out.totals)
    /\ day_out.totals.taxes > 0
    /\ Len(day_rows) = 3
    /\ Len(day_out.totals.payment_totals) = 2
    /\ Len(day_out.entries) = 6
    /\ SumAmounts(day_out.entries) = day_out.totals.taxes

\* C2: with taxable revenue, shipping, discount and zero-tax revenue all
\* positive and N >= 1 payment methods of positive total, the lines are the
\* taxable-revenue line, the shipping line, the N payment lines by first
\* appearance of their method in the rows, the discount line and the
\* zero-rated line: 2 + N + 2 lines.
C2_FullJournalShape ==
    LET t == day_out.totals
        M == PositiveMethods(day_rows, Len(day_rows))
        N == Len(M)
        e == day_out.entries
    IN  (Called /\ TaxableRevenue(t) > 0 /\ t.shipping > 0 /\ t.discount > 0
         /\ t.zero_tax_revenue > 0 /\ N >= 1)
        => /\ Len(e) = 2 + N + 2
           /\ IsLine(e[1], "208 - Revenue - Shopify", "Output VAT 5% (5%)",
                     -(t.subtotal - t.zero_tax_revenue + t.discount))
           /\ IsLine(e[2], "203 - Revenue - Shipping Retail",
                     "Zero Rated Output VAT (0%)", -t.shipping)
           /\ \A k \in 1..N :
                 IsLine(e[2 + k], get_payment_account(M[k]), "Tax Exempt (0%)",
                        MethodTotal(day_rows, Len(day_rows), M[k]))
           /\ IsLine(e[N + 3], "205B - Sales Discount [Shopify]",
                     "Output VAT 5% (5%)", t.discount)
           /\ IsLine(e[N + 4], "208 - Revenue - Shopify",
                     "Zero Rated Output VAT (0%)", -t.zero_tax_revenue)

\* C2 witness: a zero-rated Tabby order before a taxed Stripe order: six
\* lines, the Tabby payment line before the Stripe one.
C2_Witness ==
    /\ Called
    /\ TaxableRevenue(day_out.totals) > 0 /\ day_out.totals.shipping > 0
    /\ day_out.totals.discount > 0 /\ day_out.totals.zero_tax_revenue > 0
    /\ PositiveMethods(day_rows, Len(day_rows)) = <<Tabby, Stripe>>
    /\ Len(day_out.entries) = 6
    /\ day_out.entries[3].AccountCode = "112 - Tabby"
    /\ day_out.entries[4].AccountCode = "102 - Stripe Account"

LinesOf(e, account, tax_rate) ==
    {k \in 1..Len(e) : e[k].AccountCode = account /\ e[k].TaxRate = tax_rate}

PaymentLines(e) == {k \in 1..Len(e) : e[k].TaxRate = "Tax Exempt (0%)"}

OneIfPositive(x) == IF x > 0 THEN 1 ELSE 0

MaxRows == 3

DateText1 == <<"0","1","/","0","3","/","2","0","2","5">>
DateText1Short == <<"1","/","0","3","/","2","0","2","5">>
DateText9 == <<"9","/","0","3","/","2","0","2","5">>
DateText10 == <<"1","0","/","0","3","/","2","0","2","5">>
DateText10Padded == <<" ">> \o DateText10 \o <<" ">>
DateTextJan31 == <<"3","1","/","0","1","/","2","0","2","5">>
DateTextFeb15 == <<"1","5","/","0","2","/","2","0","2","5">>
DateTextFeb31 == <<"3","1","/","0","2","/","2","0","2","5">>
DateTextLastYear == <<"0","1","/","0","3","/","2","0","2","4">>

Targets == {<<3, 2025>>, <<2, 2025>>}

Taxed(d) == Row(d, 10000, 1000, 0, 500, 11500, Stripe)
ZeroRated(d) == Row(d, 5000, 0, 0, 0, 5000, Tabby)
Nothing(d) == Row(d, 0, 0, 0, 0, 0, Card)
CutShort(d) == [Row(d, 1000, 0, 0, 0, 0, <<>>) EXCEPT !.pm = NoneField]

\* the rows the reader can yield
MonthRowChoices ==
    { Taxed(DateText1), Taxed(DateText1Short), Taxed(DateText10),
      ZeroRated(DateText9), CutShort(DateText9), Nothing(DateText10Padded),
      Taxed(DateTextJan31), Taxed(DateTextFeb15), Taxed(DateTextFeb31),
      Taxed(DateTextLastYear), Taxed(<<>>),
      Taxed(NoneField) }

MonthInit ==
    /\ pc = "read"
    /\ target \in Targets
    /\ input = <<>>
    /\ date_groups = <<>>
    /\ total_rows = 0
    /\ sorted_dates = <<>>
    /\ idx = 0
    /\ all_entries = <<>>
    /\ processed_dates = <<>>
    /\ day_log = <<>>
    /\ output = NoFile
    /\ summary = NoSummary
    /\ PayIdle
    /\ DayIdle

\* one pass of  for row in reader ; a missing created-at field ends the run
\* in the handler of line 199
ReadRow ==
    /\ pc = "read"
    /\ Len(input) < MaxRows
    /\ \E row \in MonthRowChoices :
          /\ input' = Append(input, row)
          /\ IF ReadRaises(row)
             THEN /\ pc' = "read_failed"
                  /\ UNCHANGED <<date_groups, total_rows>>
             ELSE /\ pc' = "read"
                  /\ date_groups' = ReadStep(date_groups, row, target)
                  /\ total_rows' = IF RowUsed(row, target)
                                   THEN total_rows + 1 ELSE total_rows
    /\ UNCHANGED <<target, sorted_dates, idx, all_entries, processed_dates,
                   day_log, output, summary, payVars, dayVars>>

\* the reader is exhausted: return when no date was found, else sort
EndOfRows ==
    /\ pc = "read"
    /\ IF date_groups = <<>>
       THEN pc' = "no_orders" /\ UNCHANGED <<sorted_dates, idx>>
       ELSE /\ sorted_dates' = SortDates(GroupKeys(date_groups))
            /\ idx' = 1
            /\ pc' = "process"
    /\ UNCHANGED <<target, input, date_groups, total_rows, all_entries,
                   processed_dates, day_log, output, summary, payVars, dayVars>>

\* the line printed for a date: the error, or the balance report
LogLine(date_str, r) ==
    [date |-> date_str, error |-> r.raised, taxes |-> r.taxes,
     balance |-> r.balance, balance_ok |-> r.balance_ok]

\* the body of  for date_str in sorted_dates  for the outcome r of
\* process_single_date
DateStep(date_str, r) ==
    /\ day_log' = Append(day_log, LogLine(date_str, r))
    /\ IF ~r.raised /\ r.entries # <<>>
       THEN /\ all_entries' = all_entries \o r.entries
            /\ processed_dates' = Append(processed_dates, date_str)
       ELSE UNCHANGED <<all_entries, processed_dates>>

\* one pass of  for date_str in sorted_dates
ProcessDate ==
    /\ pc = "process"
    /\ idx <= Len(sorted_dates)
    /\ DateStep(sorted_dates[idx],
                process_single_date(GroupRows(date_groups, sorted_dates[idx]),
                                    sorted_dates[idx]))
    /\ idx' = idx + 1
    /\ UNCHANGED <<pc, target, input, date_groups, total_rows, sorted_dates,
                   output, summary, payVars, dayVars>>

\* after the loop: return when there are no entries, else write the file and
\* print the summary; opening or writing the file may fail
WriteOutput ==
    /\ pc = "process"
    /\ idx > Len(sorted_dates)
    /\ IF all_entries = <<>>
       THEN pc' = "no_entries" /\ UNCHANGED <<output, summary>>
       ELSE \E writable \in BOOLEAN :
               IF writable
               THEN /\ output' = all_entries
                    /\ summary' = MonthlySummary(all_entries)
                    /\ pc' = "written"
               ELSE /\ pc' = "write_failed"
                    /\ UNCHANGED <<output, summary>>
    /\ UNCHANGED <<target, input, date_groups, total_rows, sorted_dates, idx,
                   all_entries, processed_dates, day_log, payVars, dayVars>>

MonthNext == ReadRow \/ EndOfRows \/ ProcessDate \/ WriteOutput

SpecMonth == MonthInit /\ [][MonthNext]_vars

(***************************************************************************)
(* Claims about convert_whole_month_to_journal (SpecMonth).                *)
(***************************************************************************)
\* a run that got past the loop over the dates, or returned before it
Finished == pc \in {"written", "write_failed", "no_entries", "no_orders"}

\* the row's created-at text parses as day/month/year into month tgt[1] of
\* year tgt[2]
DateInTargetMonth(d, tgt) == d.ok /\ d.month = tgt[1] /\ d.year = tgt[2]

InTargetMonth(row, tgt) ==
    /\ row.created # NoneField
    /\ DateInTargetMonth(Strptime(Strip(row.created)), tgt)

\* date_groups after the reader yielded rows[1..n]
RECURSIVE GroupsOf(_, _, _)
GroupsOf(rows, n, tgt) ==
    IF n = 0 THEN <<>> ELSE ReadStep(GroupsOf(rows, n - 1, tgt), rows[n], tgt)

EntriesOrNone(r) == IF r.raised THEN <<>> ELSE r.entries

\* all_entries after the loop over sorted[1..n]
RECURSIVE EntriesOf(_, _, _)
EntriesOf(groups, sorted, n) ==
    IF n = 0 THEN <<>>
    ELSE EntriesOf(groups, sorted, n - 1)
         \o EntriesOrNone(process_single_date(GroupRows(groups, sorted[n]),
                                              sorted[n]))

EntriesOfGroups(groups) ==
    EntriesOf(groups, SortDates(GroupKeys(groups)), Len(groups))

\* all_entries of a whole run over rows, none of which lacks its date field
RunEntries(rows, tgt) == EntriesOfGroups(GroupsOf(rows, Len(rows), tgt))

EntryDay(e) == SortKey(e.Date)

\* C6: whatever the order of the input rows, the output rows are grouped by
\* date and their dates never decrease, compared as parsed calendar dates.
C6_OutputChronological ==
    /\ output # NoFile => output = all_entries
    /\ \A i, j \in 1..Len(all_entries) :
          i < j =>
            /\ EntryDay(all_entries[i]) <= EntryDay(all_entries[j])
            /\ all_entries[i].Date = all_entries[j].Date
                 => \A k \in i..j : all_entries[k].Date = all_entries[i].Date

\* C6 witness: rows read latest date first ('10/03/2025', '9/03/2025',
\* '01/03/2025', which is also not their order as texts) and written out as
\* 1, 9, 10 March.
C6_Witness ==
    /\ pc = "written"
    /\ Len(input) = 3
    /\ input[1].created = DateText10
    /\ input[2].created = DateText9
    /\ input[3].created = DateText1
    /\ output[1].Date = DateText1
    /\ \E i, j \in 1..Len(output) :
          i < j /\ output[i].Date = DateText9 /\ output[j].Date = DateText10

RowsInGroups(groups) == {<<k, n>> \in (1..Len(groups)) \X (1..MaxRows + 1) :
                            n <= Len(groups[k].rows)}

\* C7: only records whose created-at text parses into the target month and
\* year are used: every output line is dated in the target month, the groups
\* hold exactly those records, a record outside the month or with an empty or
\* unparseable date text changes no amount (the entries are those of the run
\* without such records), and no such record stops the run.
C7_OnlyTargetMonthRecords ==
    /\ \A k \in 1..Len(all_entries) :
          DateInTargetMonth(Strptime(all_entries[k].Date), target)
    /\ \A kn \in RowsInGroups(date_groups) :
          InTargetMonth(date_groups[kn[1]].rows[kn[2]], target)
    /\ Cardinality(RowsInGroups(date_groups))
         = Cardinality({n \in 1..Len(input) : InTargetMonth(input[n], target)})
    /\ pc = "read_failed" => input[Len(input)].created = NoneField
    /\ Finished =>
         all_entries
           = RunEntries(SelectSeq(input, LAMBDA row : InTargetMonth(row, target)),
                        target)

\* C7 witness: target 2/2025; a record of 31/01/2025, one with an empty date
\* and one of 15/02/2025 were read; the run went on to write the lines of
\* 15/02/2025 alone.
C7_Witness ==
    /\ pc = "written"
    /\ target = <<2, 2025>>
    /\ \E a, b, c \in 1..Len(input) :
          /\ input[a].created = DateTextJan31
          /\ input[b].created = <<>>
          /\ input[c].created = DateTextFeb15
    /\ Len(date_groups) = 1
    /\ output # <<>>
    /\ \A k \in 1..Len(output) : output[k].Date = DateTextFeb15

\* the dates (group keys) with a record that makes process_single_date raise
FailingDates ==
    {Strip(input[n].created) :
        n \in {m \in 1..Len(input) :
                  InTargetMonth(input[m], target) /\ RowRaises(input[m])}}

WithoutFailingDates ==
    SelectSeq(input, LAMBDA row :
        row.created # NoneField /\ Strip(row.created) \notin FailingDates)

\* C8: a date whose processing raises contributes no line, and the run goes
\* on: after the loop the entries are those of the other dates in
\* chronological order, the same as those of a run without the failing
\* date's records.
C8_FailingDateDropped ==
    /\ \A k \in 1..Len(all_entries) : all_entries[k].Date \notin FailingDates
    /\ (pc \in {"written", "write_failed", "no_entries"})
         => /\ all_entries = RunEntries(WithoutFailingDates, target)
            /\ Len(day_log) = Len(sorted_dates)
            /\ \A k \in 1..Len(day_log) :
                  day_log[k].error <=> (day_log[k].date \in FailingDates)

\* C8 witness: 9 March has a zero-rated order and a row cut short, 10 March
\* a taxed order; 9 March failed, 10 March was processed after it, and the
\* file holds the lines of 10 March only.
C8_Witness ==
    /\ pc = "written"
    /\ FailingDates = {DateText9}
    /\ \E n \in 1..Len(input) : input[n] = ZeroRated(DateText9)
    /\ Len(day_log) = 2
    /\ day_log[1].error /\ day_log[1].date = DateText9
    /\ ~day_log[2].error /\ day_log[2].date = DateText10
    /\ output # <<>>
    /\ \A k \in 1..Len(output) : output[k].Date = DateText10

\* C9: the records of one calendar date, whatever the text of their date, are
\* summed into one aggregate: the output holds at most one taxable-revenue,
\* shipping, discount and zero-rated line per calendar date.
C9_OneJournalPerCalendarDate ==
    \A i, j \in 1..Len(all_entries) :
        (/\ EntryDay(all_entries[i]) = EntryDay(all_entries[j])
         /\ all_entries[i].AccountCode = all_entries[j].AccountCode
         /\ all_entries[i].TaxRate = all_entries[j].TaxRate
         /\ all_entries[i].TaxRate # "Tax Exempt (0%)")
        => i = j

\* C10: when every processed date is reported balanced (its lines sum to its
\* recorded tax within 0.01), the grand total of the month is within the
\* threshold reported as balanced (absolute value below 1.0).
C10_BalancedDaysBalancedMonth ==
    (pc = "written"
     /\ \A k \in 1..Len(day_log) : ~day_log[k].error => day_log[k].balance_ok)
        => /\ summary.balanced
           /\ Abs(summary.total_sum) < 100

====
